---- MODULE Spec2Model ----
(***************************************************************************)
(* The metaKeep connector (src/src/connectors/metaKeep.ts) as a state      *)
(* machine.  The closure variables `provider` and `providerPromise`, the   *)
(* listeners attached to each provider object, the persisted storage entry *)
(* 'metaKeep.disconnected' and the framework emitter are the shared state. *)
(* Every call of a connector method is a task, suspended at each `await`   *)
(* of the source.  A continuation whose awaited promise has resolved is a  *)
(* job of the microtask queue `ready`, and the jobs run one at a time in   *)
(* the order they were queued, as the JavaScript event loop runs them.     *)
(***************************************************************************)
EXTENDS Integers, Sequences, FiniteSets, TLC

\* ------------------------------------------------------------------ bounds
MaxTasks == 2
MaxCalls == 3

Tasks == 1..MaxTasks

\* --------------------------------------------------------------- constants
\* chainId handed to the MetaKeep SDK constructor: the chain the signer starts on
SdkChainId == 80002
\* viem's UserRejectedRequestError.code and ResourceUnavailableRpcError.code
UserRejectedRequestErrorCode == 4001
ResourceUnavailableRpcErrorCode == -32002
\* the transient disconnect code onDisconnect special-cases
TransientDisconnectCode == 1013
\* an RPC error code that no branch of the source tests for
InternalRpcErrorCode == -32603
\* a resolved request, where an error code is expected
NoError == 0
\* a chain that is not among config.chains
UnconfiguredChain == 137

\* config.chains, as App.tsx configures it: polygonAmoy alone
ConfigChains == {SdkChainId}
AllChains == ConfigChains \cup {UnconfiguredChain}
Events == {"connect", "accountsChanged", "chainChanged", "disconnect"}
ErrorCodes == {UserRejectedRequestErrorCode, ResourceUnavailableRpcErrorCode,
               InternalRpcErrorCode}

VARIABLES
    appId,            \* parameters.appId is a non-empty string
    provider,         \* the closure variable: 0 is undefined, n the n-th Web3Provider
    providerPromise,  \* the closure variable providerPromise has been assigned
    initCount,        \* calls of initProvider so far
    sdkCount,         \* `new MetaKeep(...)` constructions so far
    listeners,        \* listeners[p][e]: handlers attached to provider p for event e
    flag,             \* storage holds 'metaKeep.disconnected'
    providerChain,    \* the chain id the signer reports
    tasks,            \* the running and the last finished call of each slot
    ready,            \* the microtask queue: the tasks whose continuation can run
    calls             \* calls started so far

vars == <<appId, provider, providerPromise, initCount, sdkCount, listeners, flag,
          providerChain, tasks, ready, calls>>

\* ------------------------------------------------------------------ tasks
Idle ==
    [op |-> "none", fn |-> "none", pc |-> "idle", k |-> "none", h |-> 0,
     miss |-> FALSE, chainId |-> 0, rec |-> FALSE, cur |-> 0, err |-> 0,
     accs |-> FALSE, rd |-> FALSE, ret |-> "none", out |-> <<>>,
     rpc |-> "none", sw |-> "none", built |-> 0, raised |-> FALSE, rep |-> 0,
     lis |-> FALSE]

\* the globals as one record, so that a method body is a function of (g, r)
Globals ==
    [provider |-> provider, providerPromise |-> providerPromise,
     initCount |-> initCount, sdkCount |-> sdkCount, listeners |-> listeners,
     flag |-> flag, providerChain |-> providerChain, tasks |-> tasks]

\* a settled call is on record until the next step of any task, so that a
\* record with pc = "done" is the moment the call returned
Forget(ts) == [u \in Tasks |-> IF ts[u].pc = "done" THEN Idle ELSE ts[u]]

\* the awaits on the dynamic import, the SDK and the signer: the promise
\* resolves when the outside world answers
ExternalPcs == {"c_import", "c_eth", "c_addr", "ga_addr", "gc_id"}

\* the awaits on getProvider() and on config.storage, which reads and writes
\* its entry when it is called: the promise resolves without the outside world
InternalPcs == {"gp_wait", "gp_done", "su_gp", "ga_gp", "gc_gp", "sw_gp", "dc_gp",
                "od_gp", "oc_gp", "c_rm", "ia_rd", "dc_set"}

\* a switchChain that waits for its request alone
SettledOnRequest(r) ==
    r.pc = "sw_wait" /\ r.rpc \in {"rejected", "userRejected", "ok"}

\* the Promise.all of switchChain has settled: the request was rejected, or
\* the request and the confirming 'change' event have both resolved
Settled(r) ==
    /\ r.pc = "sw_wait"
    /\ \/ r.rpc \in {"rejected", "userRejected"}
       \/ r.rpc = "ok" /\ r.sw = "resolved"

InQueue(q, u) == \E i \in DOMAIN q : q[i] = u

Without(q, t) == SelectSeq(q, LAMBDA u : u # t)

RECURSIVE Enqueue(_, _, _)
\* q with the tasks of `us` that became runnable in ts and are not queued yet
Enqueue(q, ts, us) ==
    IF us = {} THEN q
    ELSE LET u == CHOOSE x \in us : \A y \in us : x <= y
             q1 == IF ~InQueue(q, u) /\ (ts[u].pc \in InternalPcs \/ Settled(ts[u]))
                   THEN Append(q, u) ELSE q
         IN  Enqueue(q1, ts, us \ {u})

Commit(t, s) ==
    /\ provider' = s.g.provider
    /\ providerPromise' = s.g.providerPromise
    /\ initCount' = s.g.initCount
    /\ sdkCount' = s.g.sdkCount
    /\ listeners' = s.g.listeners
    /\ flag' = s.g.flag
    /\ providerChain' = s.g.providerChain
    /\ tasks' = [Forget(s.g.tasks) EXCEPT ![t] = s.r]
    /\ ready' = Enqueue(Without(ready, t), [s.g.tasks EXCEPT ![t] = s.r], Tasks)
    /\ UNCHANGED appId

St(g, r) == [g |-> g, r |-> r]

Free(t) == tasks[t].pc \in {"idle", "done"}

\* the continuation of task t, suspended at pc, is the job that runs next
Runs(t, pc) == ready # <<>> /\ Head(ready) = t /\ tasks[t].pc = pc

\* the promise that task t awaits resolves or rejects: its continuation is queued
Resolve(t) ==
    /\ tasks[t].pc \in ExternalPcs
    /\ ~InQueue(ready, t)
    /\ ready' = Append(ready, t)
    /\ tasks' = Forget(tasks)
    /\ UNCHANGED <<appId, provider, providerPromise, initCount, sdkCount, listeners,
                   flag, providerChain, calls>>

\* a handler takes the lowest free slot
CanRun(t) ==
    /\ Free(t)
    /\ \A u \in Tasks : u < t => ~Free(u)

\* a call takes the lowest free slot
CanStart(t) ==
    /\ calls < MaxCalls
    /\ CanRun(t)

New(op) == [Idle EXCEPT !.op = op, !.fn = op]

\* the call has settled: resolved with `ret`, or rejected with the error `ret`
Finish(r, ret) ==
    [Idle EXCEPT !.op = r.op, !.pc = "done", !.ret = ret, !.out = r.out,
                 !.rd = r.rd, !.miss = r.miss, !.chainId = r.chainId,
                 !.rec = r.rec, !.err = r.err, !.accs = r.accs,
                 !.rpc = r.rpc, !.sw = r.sw, !.built = r.built,
                 !.raised = r.raised, !.rep = r.rep, !.lis = r.lis,
                 !.h = IF r.op = "getProvider" THEN r.h ELSE 0,
                 !.cur = IF r.op \in {"connect", "getChainId", "onAccountsChanged"}
                            /\ ret = "ok"
                         THEN r.cur ELSE 0]

ErrorName(code) ==
    IF code = UserRejectedRequestErrorCode THEN "UserRejected"
    ELSE IF code = ResourceUnavailableRpcErrorCode THEN "ResourceUnavailable"
    ELSE "Other"

\* ------------------------------------------------------ provider listeners
NoListeners == [e \in Events |-> 0]

\* provider.on(e, f): ethers appends the listener, whatever is attached already
On(ls, p, e) == [ls EXCEPT ![p][e] = @ + 1]

\* provider.removeListener(e, this.f.bind(this)): the bound function is a new
\* object that was never attached, so ethers finds nothing to remove
RemoveBound(ls, p, e) == ls

\* provider.removeListener('chainChanged', this.onChainChanged): the same
\* function object every time, so ethers removes one attached copy
RemoveShared(ls, p, e) == [ls EXCEPT ![p][e] = IF @ > 0 THEN @ - 1 ELSE 0]

\* the pre-connect -> post-connect swap of connect and onConnect
SwapToPost(ls, p) ==
    On(On(On(RemoveBound(ls, p, "connect"), p, "accountsChanged"),
          p, "chainChanged"), p, "disconnect")

\* the post-connect -> pre-connect swap of disconnect and onDisconnect
SwapToPre(ls, p) ==
    On(RemoveBound(RemoveShared(RemoveBound(ls, p, "accountsChanged"),
                                p, "chainChanged"), p, "disconnect"),
       p, "connect")

Attached(p) == {e \in Events : listeners[p][e] > 0}

\* ------------------------------------------------------- framework emitter
\* config.emitter.emit(...): the task's own record of what it emitted
Emit(r, name, c) == [r EXCEPT !.out = Append(@, <<name, c>>)]

\* a 'change' event reaches every `once('change', ...)` callback of switchChain:
\* the callback is removed, and resolves its promise only for its own chain id
OnceChange(ts, c) ==
    [u \in Tasks |->
        IF ts[u].sw = "waiting"
        THEN [ts[u] EXCEPT !.sw = IF c = ts[u].chainId THEN "resolved" ELSE "missed"]
        ELSE ts[u]]

EmitChange(g, r, c) ==
    St([g EXCEPT !.tasks = OnceChange(g.tasks, c)], Emit(r, "change", c))

\* ------------------------------------------------------------- getProvider
\* the synchronous part of getProvider(), the caller resuming at k
getProvider(g, r, k) ==
    IF g.provider # 0
    THEN St(g, [r EXCEPT !.h = g.provider, !.pc = k])
    ELSE St([g EXCEPT !.providerPromise = TRUE,
                      !.initCount = IF g.providerPromise THEN @ ELSE @ + 1],
            [r EXCEPT !.pc = "gp_wait", !.k = k,
                      !.miss = (r.op = "getProvider")])

\* `provider = await providerPromise; return provider!`: initProvider resolves
\* with undefined
GetProviderResume(t) ==
    /\ Runs(t, "gp_wait")
    /\ UNCHANGED calls
    /\ Commit(t, St([Globals EXCEPT !.provider = 0],
                    [tasks[t] EXCEPT !.h = 0, !.pc = tasks[t].k, !.k = "none"]))

StartGetProvider(t) ==
    /\ CanStart(t)
    /\ calls' = calls + 1
    /\ Commit(t, getProvider(Globals, New("getProvider"), "gp_done"))

GetProviderDone(t) ==
    /\ Runs(t, "gp_done")
    /\ UNCHANGED calls
    /\ Commit(t, St(Globals, Finish(tasks[t], "ok")))

\* ------------------------------------------------------------------- setup
StartSetup(t) ==
    /\ CanStart(t)
    /\ calls' = calls + 1
    /\ Commit(t, getProvider(Globals, New("setup"), "su_gp"))

\* `if (provider) provider.on('connect', this.onConnect.bind(this))`
setup(g, r) ==
    St(IF r.h # 0 THEN [g EXCEPT !.listeners = On(@, r.h, "connect")] ELSE g,
       Finish(r, "ok"))

SetupAttach(t) ==
    /\ Runs(t, "su_gp")
    /\ UNCHANGED calls
    /\ Commit(t, setup(Globals, tasks[t]))

\* ----------------------------------------------------------------- connect
\* line 95: `await config.storage?.removeItem('metaKeep.disconnected')`
connectClear(g, r) == St([g EXCEPT !.flag = FALSE], [r EXCEPT !.pc = "c_rm"])

\* lines 75-86: the listener swap on the closure's provider, then getChainId()
connectSwap(g, r) ==
    IF g.provider = 0
    THEN St(g, Finish(r, "TypeError"))
    ELSE getProvider([g EXCEPT !.listeners = SwapToPost(@, g.provider)],
                     r, "gc_gp")

\* lines 65-73 up to the first await: reuse the accounts when reconnecting,
\* else ask the signer for its address
connectSigner(g, r) ==
    IF r.rec
    THEN getProvider(g, [r EXCEPT !.rec = FALSE], "ga_gp")
    ELSE St(g, [r EXCEPT !.pc = "c_addr"])

StartConnect(t, c, rc) ==
    /\ CanStart(t)
    /\ calls' = calls + 1
    /\ LET r == [New("connect") EXCEPT !.chainId = c, !.rec = rc]
       IN  Commit(t, IF provider = 0
                     THEN St(Globals, [r EXCEPT !.pc = "c_import"])
                     ELSE connectSigner(Globals, r))

\* lines 44-59: after the import, the appId check and the SDK construction
connectImportNoCheck(g, r, hasAppId) ==
    St([g EXCEPT !.sdkCount = @ + 1], [r EXCEPT !.pc = "c_eth"])

connectImport(g, r, hasAppId) ==
    IF ~hasAppId
    THEN St(g, Finish(r, "ConfigError"))
    ELSE St([g EXCEPT !.sdkCount = @ + 1], [r EXCEPT !.pc = "c_eth"])

ConnectImport(t) ==
    /\ Runs(t, "c_import")
    /\ UNCHANGED calls
    /\ Commit(t, connectImport(Globals, tasks[t], appId))

\* lines 59-63: sdk.ethereum resolved, the Web3Provider is stored in the closure
connectProvider(g, r) ==
    LET p == Len(g.listeners) + 1
    IN  connectSigner([g EXCEPT !.provider = p,
                                !.listeners = Append(@, NoListeners)],
                      [r EXCEPT !.built = p])

ConnectProvider(t) ==
    /\ Runs(t, "c_eth")
    /\ UNCHANGED calls
    /\ \E ok \in BOOLEAN :
         Commit(t, IF ok THEN connectProvider(Globals, tasks[t])
                   ELSE St(Globals, Finish(tasks[t], "Other")))

\* lines 71-73 and the catch of lines 98-104: signer.getAddress() settled
connectAddress(g, r, code) ==
    IF code = NoError THEN connectSwap(g, r) ELSE St(g, Finish(r, ErrorName(code)))

ConnectAddress(t) ==
    /\ Runs(t, "c_addr")
    /\ UNCHANGED calls
    /\ \E code \in {NoError} \cup ErrorCodes :
         Commit(t, connectAddress(Globals, tasks[t], code))

\* line 97
ConnectReturn(t) ==
    /\ Runs(t, "c_rm")
    /\ UNCHANGED calls
    /\ Commit(t, St(Globals, Finish(tasks[t], "ok")))

\* ------------------------------------------------------------- switchChain
\* lines 88-91 without `if (error.code === UserRejectedRequestError.code) throw error`
afterSwitchChainTolerant(g, r, res) ==
    IF r.fn = "connect"
    THEN IF res = "ok" THEN connectClear(g, [r EXCEPT !.cur = r.chainId])
         ELSE connectClear(g, r)
    ELSE St(g, Finish(r, res))

\* the promise of switchChain settled with `res`, in switchChain or in connect
afterSwitchChain(g, r, res) ==
    IF r.fn = "connect"
    THEN IF res = "ok" THEN connectClear(g, [r EXCEPT !.cur = r.chainId])
         ELSE IF res = "UserRejected" THEN St(g, Finish(r, "UserRejected"))
         ELSE connectClear(g, r)
    ELSE St(g, Finish(r, res))

\* lines 162-171 alone: the request and the once('change'), no chain lookup
switchChainNoLookup(g, r) ==
    IF r.h = 0 THEN afterSwitchChain(g, r, "SwitchChainError")
    ELSE St(g, [r EXCEPT !.pc = "sw_wait", !.h = 0, !.rpc = "pending",
                         !.sw = "waiting"])

\* lines 159-171: the chain lookup, then the request and the once('change')
switchChain(g, r) ==
    IF r.chainId \notin ConfigChains THEN afterSwitchChain(g, r, "ChainNotConfigured")
    ELSE IF r.h = 0 THEN afterSwitchChain(g, r, "SwitchChainError")
    ELSE St(g, [r EXCEPT !.pc = "sw_wait", !.h = 0, !.rpc = "pending",
                         !.sw = "waiting"])

StartSwitchChain(t, c) ==
    /\ CanStart(t)
    /\ calls' = calls + 1
    /\ Commit(t, getProvider(Globals, [New("switchChain") EXCEPT !.chainId = c],
                             "sw_gp"))

SwitchChainRequest(t) ==
    /\ Runs(t, "sw_gp")
    /\ UNCHANGED calls
    /\ Commit(t, switchChain(Globals, tasks[t]))

\* the wallet answers provider.send('wallet_switchEthereumChain')
switchChainSent(g, r, code) ==
    IF code = NoError
    THEN St([g EXCEPT !.providerChain = r.chainId], [r EXCEPT !.rpc = "ok"])
    ELSE St(g, [r EXCEPT !.rpc = IF code = UserRejectedRequestErrorCode
                                 THEN "userRejected" ELSE "rejected"])

SwitchChainSent(t) ==
    /\ tasks[t].pc = "sw_wait"
    /\ tasks[t].rpc = "pending"
    /\ UNCHANGED calls
    /\ \E code \in {NoError} \cup ErrorCodes :
         Commit(t, switchChainSent(Globals, tasks[t], code))

\* lines 173-179: the Promise.all settled
switchChainSettled(g, r) ==
    afterSwitchChain(g, r, IF r.rpc = "ok" THEN "ok"
                           ELSE IF r.rpc = "userRejected" THEN "UserRejected"
                           ELSE "SwitchChainError")

SwitchChainReturn(t) ==
    /\ Runs(t, "sw_wait")
    /\ UNCHANGED calls
    /\ Commit(t, switchChainSettled(Globals, tasks[t]))

\* -------------------------------------------------------------- getChainId
\* line 87 without `currentChainId !== chainId`
afterGetChainIdAlwaysSwitch(g, r, res) ==
    IF r.fn = "connect"
    THEN IF res # "ok" THEN St(g, Finish(r, res))
         ELSE LET r1 == [r EXCEPT !.cur = g.providerChain, !.rep = g.providerChain]
              IN  IF r.chainId # 0
                  THEN getProvider(g, r1, "sw_gp")
                  ELSE connectClear(g, r1)
    ELSE IF r.fn = "onAccountsChanged"
    THEN IF res # "ok" THEN St(g, Finish(r, res))
         ELSE LET s == getProvider(g, [r EXCEPT !.fn = "onConnect",
                                                !.cur = g.providerChain], "ga_gp")
              IN  St([s.g EXCEPT !.flag = FALSE], s.r)
    ELSE St(g, Finish(IF res = "ok" THEN [r EXCEPT !.cur = g.providerChain] ELSE r,
                      res))

\* the promise of getChainId() settled, in getChainId, connect or onAccountsChanged
afterGetChainId(g, r, res) ==
    IF r.fn = "connect"
    THEN IF res # "ok" THEN St(g, Finish(r, res))
         ELSE LET r1 == [r EXCEPT !.cur = g.providerChain, !.rep = g.providerChain]
              IN  IF r.chainId # 0 /\ g.providerChain # r.chainId
                  THEN getProvider(g, r1, "sw_gp")
                  ELSE connectClear(g, r1)
    ELSE IF r.fn = "onAccountsChanged"
    THEN IF res # "ok" THEN St(g, Finish(r, res))
         \* this.onConnect({chainId}) runs to its first await, then removeItem
         ELSE LET s == getProvider(g, [r EXCEPT !.fn = "onConnect",
                                                !.cur = g.providerChain], "ga_gp")
              IN  St([s.g EXCEPT !.flag = FALSE], s.r)
    ELSE St(g, Finish(IF res = "ok" THEN [r EXCEPT !.cur = g.providerChain] ELSE r,
                      res))

getChainId(g, r) ==
    IF r.h = 0 THEN afterGetChainId(g, r, "TypeError")
    ELSE St(g, [r EXCEPT !.pc = "gc_id", !.h = 0])

GetChainIdSigner(t) ==
    /\ Runs(t, "gc_gp")
    /\ UNCHANGED calls
    /\ Commit(t, getChainId(Globals, tasks[t]))

\* signer.getChainId() settled: the chain id, or an error
GetChainIdReturn(t) ==
    /\ Runs(t, "gc_id")
    /\ UNCHANGED calls
    /\ \E code \in {NoError} \cup ErrorCodes :
         Commit(t, afterGetChainId(Globals, tasks[t],
                                   IF code = NoError THEN "ok" ELSE ErrorName(code)))

\* ------------------------------------------------------------- isAuthorized
\* lines 147-150: the flag read settled (or threw); then getAccounts()
isAuthorizedNoFlag(g, r, failed) ==
    IF failed THEN St(g, Finish(r, "false"))
    ELSE getProvider(g, r, "ga_gp")

isAuthorized(g, r, failed) ==
    IF failed THEN St(g, Finish(r, "false"))
    ELSE IF r.rd THEN St(g, Finish(r, "false"))
    ELSE getProvider(g, r, "ga_gp")

\* lines 150-154: `return !!accounts.length`, and the catch
isAuthorizedNoCatch(r, res) == Finish(r, IF res = "ok" THEN "true" ELSE res)

isAuthorizedAccounts(r, res) == Finish(r, IF res = "ok" THEN "true" ELSE "false")

\* storage.getItem reads the entry when it is called
StartIsAuthorized(t) ==
    /\ CanStart(t)
    /\ calls' = calls + 1
    /\ Commit(t, St(Globals, [New("isAuthorized") EXCEPT !.pc = "ia_rd", !.rd = flag]))

IsAuthorizedRead(t) ==
    /\ Runs(t, "ia_rd")
    /\ UNCHANGED calls
    /\ \E failed \in BOOLEAN :
         Commit(t, isAuthorized(Globals, [tasks[t] EXCEPT !.raised = failed], failed))

\* ------------------------------------------------------------- getAccounts
\* lines 203-211 of onConnect: emit 'connect', then getProvider()
onConnectEmit(g, r) == getProvider(g, Emit(r, "connect", r.cur), "oc_gp")

\* the promise of getAccounts() settled with `res`: one address, or an error
afterGetAccounts(g, r, res) ==
    IF r.fn = "isAuthorized"
    THEN St(g, isAuthorizedAccounts([r EXCEPT !.raised = (res # "ok")], res))
    ELSE IF r.fn = "connect"
    THEN IF res = "ok" THEN connectSwap(g, r) ELSE St(g, [r EXCEPT !.pc = "c_addr"])
    ELSE IF r.fn = "onConnect"
    THEN IF res = "ok" THEN onConnectEmit(g, r) ELSE St(g, Finish(r, res))
    ELSE St(g, Finish(r, res))

getAccounts(g, r) ==
    IF r.h = 0 THEN afterGetAccounts(g, r, "TypeError")
    ELSE St(g, [r EXCEPT !.pc = "ga_addr", !.h = 0])

GetAccountsSigner(t) ==
    /\ Runs(t, "ga_gp")
    /\ UNCHANGED calls
    /\ Commit(t, getAccounts(Globals, tasks[t]))

GetAccountsReturn(t) ==
    /\ Runs(t, "ga_addr")
    /\ UNCHANGED calls
    /\ \E code \in {NoError} \cup ErrorCodes :
         Commit(t, afterGetAccounts(Globals, tasks[t],
                                    IF code = NoError THEN "ok" ELSE ErrorName(code)))

\* -------------------------------------------------------------- disconnect
\* lines 110-119
disconnect(g, r) ==
    IF r.h = 0 THEN St(g, Finish(r, "TypeError"))
    ELSE St([g EXCEPT !.listeners = SwapToPre(@, r.h), !.flag = TRUE],
            [r EXCEPT !.pc = "dc_set", !.h = 0])

StartDisconnect(t) ==
    /\ CanStart(t)
    /\ calls' = calls + 1
    /\ Commit(t, getProvider(Globals, New("disconnect"), "dc_gp"))

DisconnectSwap(t) ==
    /\ Runs(t, "dc_gp")
    /\ UNCHANGED calls
    /\ Commit(t, disconnect(Globals, tasks[t]))

DisconnectReturn(t) ==
    /\ Runs(t, "dc_set")
    /\ UNCHANGED calls
    /\ Commit(t, St(Globals, Finish(tasks[t], "ok")))

\* ------------------------------------------------------- provider handlers
\* lines 205-211
onConnectSwap(g, r) ==
    St(IF r.h # 0 THEN [g EXCEPT !.listeners = SwapToPost(@, r.h)] ELSE g,
       Finish(r, "ok"))

OnConnectSwap(t) ==
    /\ Runs(t, "oc_gp")
    /\ UNCHANGED calls
    /\ Commit(t, onConnectSwap(Globals, tasks[t]))

\* lines 220-230 with a setItem('metaKeep.disconnected', true) added
onDisconnectEmitSetsFlag(g, r) ==
    LET r1 == Emit(r, "disconnect", 0)
    IN  IF r.h = 0 THEN St(g, Finish(r1, "TypeError"))
        ELSE St([g EXCEPT !.listeners = SwapToPre(@, r.h), !.flag = TRUE],
                Finish(r1, "ok"))

\* lines 220-230: emit 'disconnect', then the swap back on the local provider
onDisconnectEmit(g, r) ==
    LET r1 == Emit(r, "disconnect", 0)
    IN  IF r.h = 0 THEN St(g, Finish(r1, "TypeError"))
        ELSE St([g EXCEPT !.listeners = SwapToPre(@, r.h)], Finish(r1, "ok"))

\* lines 220-230 alone, whatever the error
onDisconnectAnyCode(g, r) == onDisconnectEmit(g, r)

\* lines 216-218: after getProvider()
onDisconnect(g, r) ==
    IF r.err = TransientDisconnectCode /\ r.h # 0
    THEN getProvider(g, [r EXCEPT !.fn = "onDisconnect1013"], "ga_gp")
    ELSE onDisconnectEmit(g, r)

OnDisconnect(t) ==
    /\ Runs(t, "od_gp")
    /\ UNCHANGED calls
    /\ Commit(t, onDisconnect(Globals, tasks[t]))

\* lines 183 and 189-191 alone: the framework never counted as listening
onAccountsChangedAlwaysChange(g, r, listening) ==
    IF ~r.accs THEN getProvider(g, [r EXCEPT !.fn = "onDisconnect"], "od_gp")
    ELSE LET s == EmitChange(g, r, 0) IN St(s.g, Finish(s.r, "ok"))

\* lines 184-192 alone: an empty account list handled like any other
onAccountsChangedNoDisconnect(g, r, listening) ==
    IF listening THEN getProvider(g, r, "gc_gp")
    ELSE LET s == EmitChange(g, r, 0) IN St(s.g, Finish(s.r, "ok"))

\* lines 183-192, up to the first await; `listening` is what
\* config.emitter.listenerCount('connect') answers
onAccountsChanged(g, r, listening) ==
    IF ~r.accs THEN getProvider(g, [r EXCEPT !.fn = "onDisconnect"], "od_gp")
    ELSE IF listening THEN getProvider(g, r, "gc_gp")
    ELSE LET s == EmitChange(g, r, 0) IN St(s.g, Finish(s.r, "ok"))

\* the provider object p emits an event and ethers calls the attached handler
ProviderConnect(t, p) ==
    /\ CanStart(t)
    /\ listeners[p]["connect"] > 0
    /\ calls' = calls + 1
    /\ Commit(t, getProvider(Globals, [New("onConnect") EXCEPT !.cur = providerChain],
                             "ga_gp"))

ProviderAccountsChanged(t, p, nonEmpty) ==
    /\ CanStart(t)
    /\ listeners[p]["accountsChanged"] > 0
    /\ calls' = calls + 1
    /\ \E listening \in BOOLEAN :
         Commit(t, onAccountsChanged(Globals,
                                     [New("onAccountsChanged") EXCEPT
                                          !.accs = nonEmpty,
                                          !.lis = nonEmpty /\ listening],
                                     listening))

\* lines 194-197: the handler is synchronous and is over within the step, so
\* it is no call that stays in flight
ProviderChainChanged(t, p, c) ==
    /\ CanRun(t)
    /\ listeners[p]["chainChanged"] > 0
    /\ UNCHANGED calls
    /\ LET s == EmitChange([Globals EXCEPT !.providerChain = c],
                           [New("onChainChanged") EXCEPT !.chainId = c], c)
       IN  Commit(t, St(s.g, Finish(s.r, "ok")))

ProviderDisconnect(t, p, code) ==
    /\ CanStart(t)
    /\ listeners[p]["disconnect"] > 0
    /\ calls' = calls + 1
    /\ Commit(t, getProvider(Globals, [New("onDisconnect") EXCEPT !.err = code],
                             "od_gp"))

\* ---------------------------------------------------------- specification
Init ==
    /\ appId \in BOOLEAN
    /\ provider = 0
    /\ providerPromise = FALSE
    /\ initCount = 0
    /\ sdkCount = 0
    /\ listeners = <<>>
    /\ flag \in BOOLEAN
    /\ providerChain = SdkChainId
    /\ tasks = [t \in Tasks |-> Idle]
    /\ ready = <<>>
    /\ calls = 0

Next ==
    \/ \E t \in Tasks : Resolve(t)
    \/ \E t \in Tasks : StartSetup(t)
    \/ \E t \in Tasks : SetupAttach(t)
    \/ \E t \in Tasks : StartGetProvider(t)
    \/ \E t \in Tasks : GetProviderResume(t)
    \/ \E t \in Tasks : GetProviderDone(t)
    \/ \E t \in Tasks, c \in {0} \cup AllChains, rc \in BOOLEAN : StartConnect(t, c, rc)
    \/ \E t \in Tasks : ConnectImport(t)
    \/ \E t \in Tasks : ConnectProvider(t)
    \/ \E t \in Tasks : ConnectAddress(t)
    \/ \E t \in Tasks : ConnectReturn(t)
    \/ \E t \in Tasks, c \in AllChains : StartSwitchChain(t, c)
    \/ \E t \in Tasks : SwitchChainRequest(t)
    \/ \E t \in Tasks : SwitchChainSent(t)
    \/ \E t \in Tasks : SwitchChainReturn(t)
    \/ \E t \in Tasks : GetChainIdSigner(t)
    \/ \E t \in Tasks : GetChainIdReturn(t)
    \/ \E t \in Tasks : StartIsAuthorized(t)
    \/ \E t \in Tasks : IsAuthorizedRead(t)
    \/ \E t \in Tasks : GetAccountsSigner(t)
    \/ \E t \in Tasks : GetAccountsReturn(t)
    \/ \E t \in Tasks : StartDisconnect(t)
    \/ \E t \in Tasks : DisconnectSwap(t)
    \/ \E t \in Tasks : DisconnectReturn(t)
    \/ \E t \in Tasks : OnConnectSwap(t)
    \/ \E t \in Tasks : OnDisconnect(t)
    \/ \E t \in Tasks, p \in DOMAIN listeners : ProviderConnect(t, p)
    \/ \E t \in Tasks, p \in DOMAIN listeners, ne \in BOOLEAN :
         ProviderAccountsChanged(t, p, ne)
    \/ \E t \in Tasks, p \in DOMAIN listeners, c \in AllChains :
         ProviderChainChanged(t, p, c)
    \/ \E t \in Tasks, p \in DOMAIN listeners,
          code \in {NoError, TransientDisconnectCode, InternalRpcErrorCode} :
         ProviderDisconnect(t, p, code)

Spec == Init /\ [][Next]_vars

\* no call of the framework is in progress
Quiet == \A t \in Tasks : Free(t)

\* the framework makes its calls one after the other and the provider emits
\* its events between them, each after the call or handler before has settled;
\* chainChanged alone, whose handler is synchronous and which switchChain
\* waits for, arrives at any time
NextSeq ==
    \/ \E t \in Tasks : Resolve(t)
    \/ \E t \in Tasks : Quiet /\ StartSetup(t)
    \/ \E t \in Tasks : SetupAttach(t)
    \/ \E t \in Tasks : Quiet /\ StartGetProvider(t)
    \/ \E t \in Tasks : GetProviderResume(t)
    \/ \E t \in Tasks : GetProviderDone(t)
    \/ \E t \in Tasks, c \in {0} \cup AllChains, rc \in BOOLEAN :
         Quiet /\ StartConnect(t, c, rc)
    \/ \E t \in Tasks : ConnectImport(t)
    \/ \E t \in Tasks : ConnectProvider(t)
    \/ \E t \in Tasks : ConnectAddress(t)
    \/ \E t \in Tasks : ConnectReturn(t)
    \/ \E t \in Tasks, c \in AllChains : Quiet /\ StartSwitchChain(t, c)
    \/ \E t \in Tasks : SwitchChainRequest(t)
    \/ \E t \in Tasks : SwitchChainSent(t)
    \/ \E t \in Tasks : SwitchChainReturn(t)
    \/ \E t \in Tasks : GetChainIdSigner(t)
    \/ \E t \in Tasks : GetChainIdReturn(t)
    \/ \E t \in Tasks : Quiet /\ StartIsAuthorized(t)
    \/ \E t \in Tasks : IsAuthorizedRead(t)
    \/ \E t \in Tasks : GetAccountsSigner(t)
    \/ \E t \in Tasks : GetAccountsReturn(t)
    \/ \E t \in Tasks : Quiet /\ StartDisconnect(t)
    \/ \E t \in Tasks : DisconnectSwap(t)
    \/ \E t \in Tasks : DisconnectReturn(t)
    \/ \E t \in Tasks : OnConnectSwap(t)
    \/ \E t \in Tasks : OnDisconnect(t)
    \/ \E t \in Tasks, p \in DOMAIN listeners : Quiet /\ ProviderConnect(t, p)
    \/ \E t \in Tasks, p \in DOMAIN listeners, ne \in BOOLEAN :
         Quiet /\ ProviderAccountsChanged(t, p, ne)
    \/ \E t \in Tasks, p \in DOMAIN listeners, c \in AllChains :
         ProviderChainChanged(t, p, c)
    \/ \E t \in Tasks, p \in DOMAIN listeners,
          code \in {NoError, TransientDisconnectCode, InternalRpcErrorCode} :
         Quiet /\ ProviderDisconnect(t, p, code)

SpecSeq == Init /\ [][NextSeq]_vars

\* the event loop runs the continuation of a switchChain whose Promise.all
\* has settled
SpecSeqFair ==
    Init /\ [][NextSeq]_vars /\ WF_vars(\E t \in Tasks : SwitchChainReturn(t))

\* connect, disconnect and isAuthorized alone: the operations that decide what
\* an authorization probe answers
NextAuth ==
    \/ \E t \in Tasks : Resolve(t)
    \/ \E t \in Tasks, rc \in BOOLEAN : StartConnect(t, 0, rc)
    \/ \E t \in Tasks : ConnectImport(t)
    \/ \E t \in Tasks : ConnectProvider(t)
    \/ \E t \in Tasks : ConnectAddress(t)
    \/ \E t \in Tasks : ConnectReturn(t)
    \/ \E t \in Tasks : GetProviderResume(t)
    \/ \E t \in Tasks : GetChainIdSigner(t)
    \/ \E t \in Tasks : GetChainIdReturn(t)
    \/ \E t \in Tasks : GetAccountsSigner(t)
    \/ \E t \in Tasks : GetAccountsReturn(t)
    \/ \E t \in Tasks : StartDisconnect(t)
    \/ \E t \in Tasks : DisconnectSwap(t)
    \/ \E t \in Tasks : DisconnectReturn(t)
    \/ \E t \in Tasks : StartIsAuthorized(t)
    \/ \E t \in Tasks : IsAuthorizedRead(t)

SpecAuth == Init /\ [][NextAuth]_vars

\* an adapter constructed without an appId: the actions left out are those
\* that need a provider object, which such an adapter never has
NextNoAppId ==
    \/ \E t \in Tasks : Resolve(t)
    \/ \E t \in Tasks : StartSetup(t)
    \/ \E t \in Tasks : SetupAttach(t)
    \/ \E t \in Tasks : StartGetProvider(t)
    \/ \E t \in Tasks : GetProviderResume(t)
    \/ \E t \in Tasks : GetProviderDone(t)
    \/ \E t \in Tasks, c \in {0} \cup AllChains, rc \in BOOLEAN : StartConnect(t, c, rc)
    \/ \E t \in Tasks : ConnectImport(t)
    \/ \E t \in Tasks, c \in AllChains : StartSwitchChain(t, c)
    \/ \E t \in Tasks : SwitchChainRequest(t)
    \/ \E t \in Tasks : StartIsAuthorized(t)
    \/ \E t \in Tasks : IsAuthorizedRead(t)
    \/ \E t \in Tasks : GetAccountsSigner(t)
    \/ \E t \in Tasks : StartDisconnect(t)
    \/ \E t \in Tasks : DisconnectSwap(t)

InitNoAppId == Init /\ ~appId

SpecNoAppId == InitNoAppId /\ [][NextNoAppId]_vars

\* ------------------------------------------------------------------ claims
PreConnect == {"connect"}
PostConnect == {"accountsChanged", "chainChanged", "disconnect"}

\* the call of `op` in slot t has just settled
Returned(t, op) == tasks[t].pc = "done" /\ tasks[t].op = op

\* C1: whenever a provider handle is cached, the handlers attached to it are
\* exactly the pre-connect set or exactly the post-connect set
C1_ListenerSetsExclusive ==
    provider # 0 => Attached(provider) \in {PreConnect, PostConnect}

\* C2: when connect returns successfully, the events with a handler attached
\* to the cached provider are exactly accountsChanged, chainChanged, disconnect
C2_ConnectLeavesPostSet ==
    \A t \in Tasks :
        Returned(t, "connect") /\ tasks[t].ret = "ok"
            => provider # 0 /\ Attached(provider) = PostConnect

\* C3: when disconnect returns successfully, the events with a handler attached
\* to the cached provider are exactly connect, and the persisted flag is set
C3_DisconnectLeavesPreSet ==
    \A t \in Tasks :
        Returned(t, "disconnect") /\ tasks[t].ret = "ok"
            => provider # 0 /\ Attached(provider) = PreConnect /\ flag

\* C4: a getProvider() call made while no handle is cached resolves with a
\* provider handle, after exactly one creation in total
C4_GetProviderCreatesOnce ==
    \A t \in Tasks :
        Returned(t, "getProvider") /\ tasks[t].miss
            => tasks[t].h # 0 /\ initCount = 1

\* C5: once a provider handle is in the cached slot, the slot holds that same
\* handle in every later state
C5_CachedHandleStays == [][provider # 0 => provider' = provider]_vars

\* C6: the SDK client is constructed at most once per adapter instance
C6_SdkConstructedOnce == sdkCount <= 1

\* C7: isAuthorized() returns false whenever the persisted flag was set when
\* it read it
C7_FlagMeansNotAuthorized ==
    \A t \in Tasks :
        Returned(t, "isAuthorized") /\ tasks[t].rd => tasks[t].ret = "false"

\* a probe that read a set flag although a provider was cached and the read
\* itself did not fail
C7_Witness ==
    \E t \in Tasks :
        /\ Returned(t, "isAuthorized")
        /\ tasks[t].rd
        /\ ~tasks[t].raised
        /\ provider # 0

\* C8: isAuthorized() never rejects: it settles with a boolean, and with false
\* whenever reading the flag or deriving the accounts raised an error
C8_IsAuthorizedNeverThrows ==
    \A t \in Tasks :
        Returned(t, "isAuthorized")
            => /\ tasks[t].ret \in {"true", "false"}
               /\ tasks[t].raised => tasks[t].ret = "false"

\* a probe whose account derivation raised, with the flag not set
C8_Witness ==
    \E t \in Tasks :
        /\ Returned(t, "isAuthorized")
        /\ ~tasks[t].rd
        /\ tasks[t].raised
        /\ provider = 0

\* C9: without an appId no SDK client is ever constructed, every connect fails
\* with the configuration error, and no step changes the cached provider, the
\* attached listeners or the persisted flag
C9_NoAppIdFailsBeforeSdk ==
    /\ [](~appId =>
            /\ sdkCount = 0
            /\ \A t \in Tasks : Returned(t, "connect") => tasks[t].ret = "ConfigError")
    /\ [][~appId => UNCHANGED <<provider, listeners, flag>>]_vars

\* a connect of an adapter without appId has failed with the configuration error
C9_Witness ==
    \E t \in Tasks :
        ~appId /\ Returned(t, "connect") /\ tasks[t].ret = "ConfigError"

\* C10: when connect fails with the user-rejected error, the provider handle
\* that this connect constructed is the cached one
C10_RejectedConnectKeepsHandle ==
    \A t \in Tasks :
        Returned(t, "connect") /\ tasks[t].ret = "UserRejected" /\ tasks[t].built # 0
            => provider = tasks[t].built

\* C11: switchChain for a chain that is not configured fails with the
\* chain-not-configured error, having sent no request to the provider and
\* registered no listener on the framework emitter
C11_UnconfiguredChainFailsFirst ==
    \A t \in Tasks :
        Returned(t, "switchChain") /\ tasks[t].chainId \notin ConfigChains
            => /\ tasks[t].ret = "ChainNotConfigured"
               /\ tasks[t].rpc = "none"
               /\ tasks[t].sw = "none"

\* switchChain for an unconfigured chain has failed while a provider was cached
C11_Witness ==
    \E t \in Tasks :
        /\ Returned(t, "switchChain")
        /\ tasks[t].chainId \notin ConfigChains
        /\ tasks[t].ret = "ChainNotConfigured"
        /\ provider # 0

\* C12: a connect that asks for no chain, or for the chain its signer reported,
\* sends no chain-switch request and returns the reported chain id
C12_SameChainNoSwitch ==
    \A t \in Tasks :
        /\ tasks[t].op = "connect"
        /\ tasks[t].rep # 0
        /\ tasks[t].chainId \in {0, tasks[t].rep}
        => /\ tasks[t].rpc = "none"
           /\ tasks[t].sw = "none"
           /\ Returned(t, "connect") => tasks[t].ret = "ok" /\ tasks[t].cur = tasks[t].rep

\* a connect that asked for the chain its signer reported has returned
C12_Witness ==
    \E t \in Tasks :
        /\ Returned(t, "connect")
        /\ tasks[t].ret = "ok"
        /\ tasks[t].chainId # 0
        /\ tasks[t].chainId = tasks[t].rep

\* C13: onDisconnect with error code 1013, the provider still yielding an
\* account, emits nothing and none of its steps changes the attached handlers;
\* onDisconnect with no error or another code emits the framework `disconnect`
C13_TransientDisconnectIgnored ==
    /\ [](\A t \in Tasks :
            Returned(t, "onDisconnect")
                => IF tasks[t].err = TransientDisconnectCode
                   THEN tasks[t].ret = "ok" => tasks[t].out = <<>>
                   ELSE tasks[t].out = << <<"disconnect", 0>> >>)
    /\ [][\A t \in Tasks :
            /\ tasks[t].op = "onDisconnect"
            /\ tasks[t].err = TransientDisconnectCode
            /\ tasks[t].pc # "done"
            /\ tasks'[t] # tasks[t]
            /\ tasks'[t].ret \in {"none", "ok"}
            => listeners' = listeners]_vars

\* onDisconnect with code 1013 has returned after the signer gave its address
C13_Witness ==
    \E t \in Tasks :
        /\ Returned(t, "onDisconnect")
        /\ tasks[t].err = TransientDisconnectCode
        /\ tasks[t].ret = "ok"
        /\ tasks[t].out = <<>>

\* two outcomes of a handler step are the same but for the name of the call
SameButOp(a, b) ==
    a.g = b.g /\ [a.r EXCEPT !.op = "none"] = [b.r EXCEPT !.op = "none"]

\* C14: from every state, onAccountsChanged([]) and onDisconnect() emit the same
\* framework events and end with the same attached handlers and persisted flag
C14_EmptyAccountsIsDisconnect ==
    /\ \A listening \in BOOLEAN :
          SameButOp(onAccountsChanged(Globals, New("onAccountsChanged"), listening),
                    getProvider(Globals, New("onDisconnect"), "od_gp"))
    /\ \A t \in Tasks :
          tasks[t].pc = "od_gp" /\ tasks[t].err = NoError
              => SameButOp(onDisconnect(Globals, [tasks[t] EXCEPT !.op = "onAccountsChanged"]),
                           onDisconnect(Globals, [tasks[t] EXCEPT !.op = "onDisconnect"]))
    /\ \A t \in Tasks :
          Returned(t, "onAccountsChanged") /\ ~tasks[t].accs
              => tasks[t].out = << <<"disconnect", 0>> >>

\* onAccountsChanged([]) has run to the end of onDisconnect
C14_Witness ==
    \E t \in Tasks :
        /\ Returned(t, "onAccountsChanged")
        /\ ~tasks[t].accs
        /\ tasks[t].ret = "ok"
        /\ tasks[t].out = << <<"disconnect", 0>> >>

\* task t takes a step that leaves it at pc
StepsTo(t, pc) == tasks[t].pc # pc /\ tasks'[t].pc = pc

\* the persisted flag is set by disconnect() alone
FlagSetByDisconnect ==
    ~flag /\ flag' => \E t \in Tasks : tasks'[t].op = "disconnect" /\ StepsTo(t, "dc_set")

\* the persisted flag is cleared by a connect that goes on to succeed
ClearedByConnect(t) == tasks'[t].op = "connect" /\ StepsTo(t, "c_rm")

\* the persisted flag is cleared by onAccountsChanged reconnecting (line 187)
ClearedByAccountsChanged(t) ==
    /\ tasks[t].op = "onAccountsChanged"
    /\ tasks[t].accs
    /\ tasks[t].pc = "gc_id"
    /\ tasks'[t].fn = "onConnect"

\* C15 as the specification states it: the flag is set by disconnect() and
\* cleared by a successful connect, and by nothing else
C15_FlagClearedOnlyByConnect ==
    /\ [][FlagSetByDisconnect]_vars
    /\ [][flag /\ ~flag' => \E t \in Tasks : ClearedByConnect(t)]_vars

\* C15: the flag is set by disconnect() alone, and cleared only by a connect
\* that succeeds or by onAccountsChanged reconnecting with a non-empty account
\* list; a failed connect and a provider disconnect event leave it as it is,
\* and isAuthorized() returns false whenever it reads the flag set
C15_FlagFollowsDisconnect ==
    /\ [][FlagSetByDisconnect]_vars
    /\ [][flag /\ ~flag'
            => \E t \in Tasks : ClearedByConnect(t) \/ ClearedByAccountsChanged(t)]_vars
    /\ [](\A t \in Tasks :
            Returned(t, "isAuthorized") /\ tasks[t].rd => tasks[t].ret = "false")

\* disconnect() has returned with the flag set
C15_Witness ==
    \E t \in Tasks :
        Returned(t, "disconnect") /\ tasks[t].ret = "ok" /\ flag /\ provider # 0

\* C16: when switchChain returns the chain, its wallet_switchEthereumChain
\* request has completed and, since the call started, a framework `change`
\* event carrying the requested chain id has been emitted
C16_SwitchNeedsRequestAndEvent ==
    \A t \in Tasks :
        Returned(t, "switchChain") /\ tasks[t].ret = "ok"
            => tasks[t].rpc = "ok" /\ tasks[t].sw = "resolved"

\* a switchChain has returned the chain
C16_Witness ==
    \E t \in Tasks :
        /\ Returned(t, "switchChain")
        /\ tasks[t].ret = "ok"
        /\ tasks[t].chainId \in ConfigChains

\* connect asked for a chain other than the one its signer reported
AskedOtherChain(r) == r.op = "connect" /\ r.rep # 0 /\ r.chainId \notin {0, r.rep}

\* C17: a connect that asked for another chain than the reported one and whose
\* chain switch failed: on user rejection it fails with the user-rejected error
\* and leaves the persisted flag; on any other failure it succeeds, returns the
\* reported chain id, having cleared the flag on its way to returning
C17_SwitchFailureInConnect ==
    /\ [](\A t \in Tasks :
            Returned(t, "connect") /\ AskedOtherChain(tasks[t])
                => /\ tasks[t].rpc = "userRejected" => tasks[t].ret = "UserRejected"
                   /\ tasks[t].rpc \in {"none", "rejected"}
                        => tasks[t].ret = "ok" /\ tasks[t].cur = tasks[t].rep)
    /\ [][\A t \in Tasks :
            /\ AskedOtherChain(tasks[t])
            /\ tasks[t].pc # "done"
            /\ tasks'[t].pc # tasks[t].pc
            => IF tasks[t].rpc = "userRejected" THEN flag' = flag
               ELSE StepsTo(t, "c_rm") => ~flag']_vars

\* a connect whose switch request the wallet refused, not the user, has returned
C17_Witness ==
    \E t \in Tasks :
        /\ Returned(t, "connect")
        /\ AskedOtherChain(tasks[t])
        /\ tasks[t].rpc = "rejected"
        /\ tasks[t].ret = "ok"

\* onAccountsChanged with a non-empty list, and what
\* config.emitter.listenerCount('connect') answered
GotAccounts(r, listening) ==
    r.op = "onAccountsChanged" /\ r.accs /\ r.lis = listening

\* without a framework `connect` listener the handler is one synchronous step:
\* it emits one `change` and leaves the flag and the attached handlers
ChangeOnly ==
    \A t \in Tasks :
        GotAccounts(tasks'[t], FALSE) /\ tasks[t].pc # "done" /\ tasks'[t].pc = "done"
            => /\ tasks'[t].out = << <<"change", 0>> >>
               /\ tasks'[t].ret = "ok"
               /\ flag' = flag
               /\ listeners' = listeners

\* C18 as the specification states it: with a framework `connect` listener a
\* non-empty accountsChanged always ends in one `connect` event and a cleared
\* flag, without one in exactly one `change` event
C18_AccountsChangedAlwaysEmits ==
    /\ [](\A t \in Tasks :
            Returned(t, "onAccountsChanged") /\ GotAccounts(tasks[t], TRUE)
                => tasks[t].out = << <<"connect", tasks[t].cur>> >> /\ tasks[t].ret = "ok")
    /\ [][ChangeOnly]_vars

\* C18: with a framework `connect` listener a non-empty accountsChanged clears
\* the flag once getChainId() has resolved and emits one `connect` event once
\* getAccounts() has resolved too, and nothing if either rejects; it never
\* emits `change`; without such a listener it emits exactly one `change` and
\* leaves the flag and the attached handlers
C18_AccountsChangedReconnects ==
    /\ [](\A t \in Tasks :
            Returned(t, "onAccountsChanged") /\ GotAccounts(tasks[t], TRUE)
                => IF tasks[t].ret = "ok"
                   THEN tasks[t].out = << <<"connect", tasks[t].cur>> >>
                   ELSE tasks[t].out = <<>>)
    /\ [][\A t \in Tasks :
            GotAccounts(tasks[t], TRUE) /\ tasks[t].pc = "gc_id" /\ tasks'[t].pc # "gc_id"
                => IF tasks'[t].pc = "done" THEN flag' = flag ELSE ~flag']_vars
    /\ [][ChangeOnly]_vars

\* a non-empty accountsChanged has ended in a framework `connect` event
C18_Witness ==
    \E t \in Tasks :
        /\ Returned(t, "onAccountsChanged")
        /\ GotAccounts(tasks[t], TRUE)
        /\ tasks[t].ret = "ok"
        /\ tasks[t].out = << <<"connect", tasks[t].cur>> >>
        /\ tasks[t].cur \in AllChains

\* C19: every provider event name has at most one adapter handler attached
C19_OneHandlerPerEvent ==
    \A p \in DOMAIN listeners : \A e \in Events : listeners[p][e] <= 1

\* onChainChanged has just emitted a framework `change` with the chain id that
\* the switchChain of task t waits for
MatchingChange(t) ==
    /\ tasks[t].pc = "sw_wait"
    /\ \E u \in Tasks :
          Returned(u, "onChainChanged") /\ tasks[u].chainId = tasks[t].chainId

\* C20: a switchChain whose request has completed successfully and for which a
\* `change` event with the requested chain id is emitted eventually returns
\* the chain
C20_SwitchChainReturns ==
    \A t \in Tasks :
        (tasks[t].op = "switchChain" /\ tasks[t].rpc = "ok" /\ MatchingChange(t))
            ~> (Returned(t, "switchChain") /\ tasks[t].ret = "ok")
====
